---- MODULE Spec2Model ----
(***************************************************************************)
(* klingon_tools: commit-message validation (git_validate_commit.py) and   *)
(* the guarded push workflow (git_push.py).                                *)
(*                                                                         *)
(* Text representation.  A commit message is a sequence of lines (the      *)
(* text split at "\n"); a line is a sequence of tokens; a token is either  *)
(* a run of word characters (regex class \w), written as a TLA+ string,    *)
(* or one punctuation character of Punct.  Len(token) is the number of     *)
(* characters of the token.  The regular expressions and the substring     *)
(* test of the source are evaluated over this representation.              *)
(***************************************************************************)
EXTENDS Integers, Sequences, FiniteSets, TLC

\* Longest commit history drawn for HEAD at the start of a run.
MaxCommits == 2
\* Largest number of tracked files that are deleted on disk at the start.
MaxDeleted == 2

Punct == {"(", ")", ":", " ", "<", ">", "@", ".", "/", "-", "*"}

IsWord(t) == t \notin Punct

\* The literal "Signed-off-by:" as tokens.
SIGNOFF == <<"Signed", "-", "off", "-", "by", ":">>

\* The closed set of type tags of the header pattern.
Types == {"feat", "fix", "chore", "docs", "style", "refactor", "perf",
          "test", "build", "ci", "revert", "wip"}

RECURSIVE CharCount(_)
CharCount(line) ==
    IF line = <<>> THEN 0 ELSE Len(Head(line)) + CharCount(Tail(line))

RECURSIVE LStrip(_)
LStrip(line) ==
    IF line # <<>> /\ Head(line) = " " THEN LStrip(Tail(line)) ELSE line

RECURSIVE RStrip(_)
RStrip(line) ==
    IF line # <<>> /\ line[Len(line)] = " "
    THEN RStrip(SubSeq(line, 1, Len(line) - 1))
    ELSE line

\* str.strip() of one line.
Strip(line) == LStrip(RStrip(line))

IsBlank(line) == \A i \in 1..Len(line) : line[i] = " "

RECURSIVE DropLeadingBlank(_)
DropLeadingBlank(msg) ==
    IF msg # <<>> /\ IsBlank(Head(msg)) THEN DropLeadingBlank(Tail(msg)) ELSE msg

RECURSIVE DropTrailingBlank(_)
DropTrailingBlank(msg) ==
    IF msg # <<>> /\ IsBlank(msg[Len(msg)])
    THEN DropTrailingBlank(SubSeq(msg, 1, Len(msg) - 1))
    ELSE msg

\* commit_message.strip().split("\n"): leading and trailing whitespace
\* (blank lines included) is removed from the text, and the rest is split
\* into lines; the empty text splits into one empty line.
StripSplit(msg) ==
    LET core == DropTrailingBlank(DropLeadingBlank(msg))
    IN  IF core = <<>> THEN << <<>> >>
        ELSE IF Len(core) = 1 THEN << Strip(core[1]) >>
        ELSE << LStrip(core[1]) >>
             \o SubSeq(core, 2, Len(core) - 1)
             \o << RStrip(core[Len(core)]) >>

\* sub occurs in line as a contiguous run.
Contains(line, sub) ==
    \E i \in 1..(Len(line) - Len(sub) + 1) :
        SubSeq(line, i, i + Len(sub) - 1) = sub

\* "Signed-off-by:" in commit_message.strip()
is_commit_message_signed_off(msg) ==
    LET lines == StripSplit(msg)
    IN  \E i \in 1..Len(lines) : Contains(lines[i], SIGNOFF)

ScopeTok(t) == IsWord(t) \/ t \in {"/", "-"}

\* (type)\([\w\/-]+\): .{10,} matched from token position p of line.
HeaderAt(line, p) ==
    /\ Len(line) >= p + 1
    /\ line[p] \in Types
    /\ line[p + 1] = "("
    /\ \E q \in (p + 3)..(Len(line) - 2) :
          /\ \A k \in (p + 2)..(q - 1) : ScopeTok(line[k])
          /\ line[q] = ")"
          /\ line[q + 1] = ":"
          /\ line[q + 2] = " "
          /\ CharCount(SubSeq(line, q + 3, Len(line))) >= 10

\* re.match(conventional_commit_pattern, lines[0]): the pattern with its
\* optional two-character prefix (?:.{2})?.
MatchesHeader(line) ==
    \/ HeaderAt(line, 1)
    \/ \E p \in 2..3 :
          /\ p - 1 <= Len(line)
          /\ CharCount(SubSeq(line, 1, p - 1)) = 2
          /\ HeaderAt(line, p)

\* re.match(r"^Signed-off-by: .+ <.+@.+>$", s)
MatchesSignOff(s) ==
    /\ Len(s) >= Len(SIGNOFF) + 1
    /\ SubSeq(s, 1, Len(SIGNOFF)) = SIGNOFF
    /\ s[Len(SIGNOFF) + 1] = " "
    /\ s[Len(s)] = ">"
    /\ \E i \in (Len(SIGNOFF) + 3)..Len(s) : \E j \in (i + 3)..(Len(s) - 2) :
          /\ s[i] = " "
          /\ s[i + 1] = "<"
          /\ s[j] = "@"

is_conventional_commit(msg) ==
    LET lines == StripSplit(msg)
    IN  /\ MatchesHeader(lines[1])
        /\ \E i \in 1..Len(lines) : MatchesSignOff(Strip(lines[i]))

validate_single_commit_message(msg) ==
    is_commit_message_signed_off(msg) /\ is_conventional_commit(msg)

\* Variant: the loop returns True as soon as one message validates.
validate_commit_messages_step_first_only(h, i) ==
    IF i > Len(h) \/ i > 1 THEN "true"
    ELSE IF ~validate_single_commit_message(h[i]) THEN "false"
    ELSE "continue"

(***************************************************************************)
(* validate_commit_messages: the loop over repo.iter_commits("HEAD").      *)
(* head is the commit sequence, most recent first; i is the position of    *)
(* the loop.  The step returns False at the first failing message, True    *)
(* when the sequence is exhausted, and goes on otherwise.                  *)
(***************************************************************************)
validate_commit_messages_step(h, i) ==
    IF i > Len(h) THEN "true"
    ELSE IF ~validate_single_commit_message(h[i]) THEN "false"
    ELSE "continue"

(***************************************************************************)
(* Sample texts.                                                           *)
(***************************************************************************)
SignOffLine ==
    SIGNOFF \o <<" ", "A", " ", "<", "a", "@", "b", ".", "com", ">">>

\* "feat(core): add new thing\nSigned-off-by: A <a@b.com>"
MsgValid ==
    << <<"feat", "(", "core", ")", ":", " ", "add", " ", "new", " ", "thing">>,
       SignOffLine >>

\* "* fix(api/v-2): 0123456789\n\n Signed-off-by: A <a@b.com> \n"
MsgValidPrefixed ==
    << <<"*", " ", "fix", "(", "api", "/", "v", "-", "2", ")", ":", " ",
         "0123456789">>,
       <<>>,
       <<" ">> \o SignOffLine \o <<" ">>,
       <<>> >>

\* "feat(core): add new thing": no sign-off at all.
MsgUnsigned ==
    << <<"feat", "(", "core", ")", ":", " ", "add", " ", "new", " ", "thing">> >>

\* "feat(core): add new thing\nSigned-off-by: nobody": the marker is there,
\* the sign-off line pattern is not matched.
MsgLooseSignOff ==
    << <<"feat", "(", "core", ")", ":", " ", "add", " ", "new", " ", "thing">>,
       SIGNOFF \o <<" ", "nobody">> >>

\* "feat(core): short\nSigned-off-by: A <a@b.com>": 5 characters after ": ".
MsgShortSubject ==
    << <<"feat", "(", "core", ")", ":", " ", "short">>, SignOffLine >>

Messages ==
    {MsgValid, MsgValidPrefixed, MsgUnsigned, MsgLooseSignOff, MsgShortSubject}

\* File names reported by git ls-files --deleted, as tokens:
\* "docs/old", "a.txt" and a file named "Signed-off-by:".
Files == { <<"docs", "/", "old">>, <<"a", ".", "txt">>, SIGNOFF }

\* Variant: the deletion commit is written with a fixed scope and a
\* sign-off line.
DeletionMessageSigned(file) ==
    << <<"chore", "(", "deletions", ")", ":", " ", "Handle", " ", "deletions">>,
       SignOffLine >>

\* f"chore({file}): Handle deletions"
DeletionMessage(file) ==
    << <<"chore", "(">> \o file
       \o <<")", ":", " ", "Handle", " ", "deletions">> >>

(***************************************************************************)
(* git_push(repo): the guarded push workflow.                              *)
(***************************************************************************)
VARIABLES
    pc,              \* position of the run in git_push
    head,            \* messages of the commits reachable from HEAD, newest first
    deleted_on_disk, \* tracked files deleted in the working tree, not committed
    other_dirty,     \* the tree has other uncommitted or untracked changes
    dirty_at_start,  \* the working tree was dirty when git_push was called
    validate_params, \* positional parameters of the callable bound to the
                     \* name validate_commit_messages in git_push
    deleted_files,   \* rest of the list the deletion loop runs over
    cursor,          \* position of the loop of validate_commit_messages
    gate,            \* what validate_commit_messages returned: none, true, false
    stash_needed,    \* the local flag of git_push
    stash_entries,   \* entries named "Auto stash before rebase" on the stash
    pushed,          \* the remote has received the push
    calls,           \* calls made on the version-control collaborator, in order
    log              \* entries written to the logger, in order

vars == <<pc, head, deleted_on_disk, other_dirty, dirty_at_start,
          validate_params,
          deleted_files, cursor, gate, stash_needed, stash_entries, pushed,
          calls, log>>

\* def validate_commit_messages(repo: Repo) -> bool
ValidateParamsDeclared == 1
\* validate_commit_messages(repo, openai_tools)
ValidateArgsPassed == 2

MsgDeletionFailed   == "Failed to handle deletion for"
MsgValidationFailed == "Commit message validation failed. Aborting push."
MsgPopFailed        == "Failed to apply stashed changes"
MsgPushed           == "Pushed changes to remote repository"
MsgPushFailed       == "Failed to push changes to remote repository"
MsgUnexpected       == "An unexpected error occurred"
Uncaught            == "uncaught"

ErrorEntry(message, reason) ==
    [level |-> "error", message |-> message, reason |-> reason]

InfoEntry(message) ==
    [level |-> "info", message |-> message, reason |-> ""]

Call(op, ok) == [op |-> op, ok |-> ok]

\* The exception a failing call raises.  subprocess.run(check=True) raises
\* CalledProcessError; a git command run through repo.git or a remote
\* raises GitCommandError; repo.index.commit fails with an error that is
\* neither (a failing hook); repo.active_branch raises TypeError on a
\* detached HEAD; a call with the wrong number of arguments raises
\* TypeError.
ExcOf(op) ==
    CASE op = "ls_files"                 -> "CalledProcessError"
      [] op = "commit"                   -> "HookExecutionError"
      [] op = "active_branch"            -> "TypeError"
      [] op = "validate_commit_messages" -> "TypeError"
      [] OTHER                           -> "GitCommandError"

\* isinstance(exc, cls) for the classes above: all derive from Exception.
IsInstance(exc, cls) == cls = "Exception" \/ exc = cls

\* except subprocess.CalledProcessError (the handler inside the loop)
DeletionHandled(exc) == IsInstance(exc, "CalledProcessError")

\* Variant: no handler around stash pop.
PopHandledNever(exc) == FALSE

\* except GitCommandError (the handler around stash pop)
PopHandled(exc) == IsInstance(exc, "GitCommandError")

\* Variant: the outer try has the GitCommandError handler only.
OuterMessageGitOnly(exc) ==
    IF IsInstance(exc, "GitCommandError") THEN MsgPushFailed ELSE Uncaught

\* The two handlers of the function's outer try, in order.
OuterMessage(exc) ==
    IF IsInstance(exc, "GitCommandError") THEN MsgPushFailed
    ELSE IF IsInstance(exc, "Exception") THEN MsgUnexpected
    ELSE Uncaught

\* Variant: the error is logged where it happens and the run goes on to
\* the end of the try block.
PropagateAndContinue(op) ==
    /\ pc' = "success"
    /\ log' = Append(log, ErrorEntry(OuterMessage(ExcOf(op)), op))

\* An exception raised by op leaves the try block.
Propagate(op) ==
    IF OuterMessage(ExcOf(op)) = Uncaught
    THEN pc' = "raised" /\ log' = log
    ELSE /\ pc' = "done"
         /\ log' = Append(log, ErrorEntry(OuterMessage(ExcOf(op)), op))

\* Variant: only tracked deletions count as dirty.
is_dirty_deletions_only == deleted_on_disk # <<>>

\* repo.is_dirty(untracked_files=True)
is_dirty == other_dirty \/ deleted_on_disk # <<>>

Without(seq, x) == SelectSeq(seq, LAMBDA y : y # x)

SeqsUpTo(S, n) == UNION {[1..k -> S] : k \in 0..n}

NoRepeat(seq) == \A i, j \in 1..Len(seq) : i # j => seq[i] # seq[j]

Init ==
    /\ pc = "start"
    /\ head \in SeqsUpTo(Messages, MaxCommits)
    /\ deleted_on_disk \in {d \in SeqsUpTo(Files, MaxDeleted) : NoRepeat(d)}
    /\ other_dirty \in BOOLEAN
    /\ dirty_at_start = (other_dirty \/ deleted_on_disk # <<>>)
    /\ validate_params \in {ValidateParamsDeclared, ValidateArgsPassed}
    /\ deleted_files = <<>>
    /\ cursor = 0
    /\ gate = "none"
    /\ stash_needed = FALSE
    /\ stash_entries = 0
    /\ pushed = FALSE
    /\ calls = <<>>
    /\ log = <<>>

\* subprocess.run(["git", "ls-files", "--deleted"], check=True)
ListDeleted ==
    /\ pc = "start"
    /\ \E ok \in BOOLEAN :
          /\ calls' = Append(calls, Call("ls_files", ok))
          /\ IF ok
             THEN /\ deleted_files' = deleted_on_disk
                  /\ pc' = "deletions"
                  /\ log' = log
             ELSE /\ Propagate("ls_files")
                  /\ deleted_files' = deleted_files
    /\ UNCHANGED <<dirty_at_start, head, deleted_on_disk, other_dirty,
                   validate_params, cursor,
                   gate, stash_needed, stash_entries, pushed>>

\* One turn of the loop over deleted_files: repo.git.add(file), then
\* repo.index.commit(f"chore({file}): Handle deletions").
HandleDeletion ==
    /\ pc = "deletions"
    /\ deleted_files # <<>>
    /\ \E failing \in {"none", "add", "commit"} :
          LET file == Head(deleted_files)
          IN  /\ calls' = calls \o
                    (IF failing = "add"
                     THEN <<Call("add", FALSE)>>
                     ELSE <<Call("add", TRUE), Call("commit", failing = "none")>>)
              /\ IF failing = "none"
                 THEN /\ head' = <<DeletionMessage(file)>> \o head
                      /\ deleted_on_disk' = Without(deleted_on_disk, file)
                      /\ deleted_files' = Tail(deleted_files)
                      /\ UNCHANGED <<pc, log>>
                 ELSE IF DeletionHandled(ExcOf(failing))
                 THEN /\ log' = Append(log, ErrorEntry(MsgDeletionFailed, failing))
                      /\ deleted_files' = Tail(deleted_files)
                      /\ UNCHANGED <<pc, head, deleted_on_disk>>
                 ELSE /\ Propagate(failing)
                      /\ UNCHANGED <<head, deleted_on_disk, deleted_files>>
    /\ UNCHANGED <<dirty_at_start, other_dirty, validate_params, cursor, gate,
                   stash_needed, stash_entries, pushed>>

\* The loop is over (or there was nothing to loop over).
EndDeletions ==
    /\ pc = "deletions"
    /\ deleted_files = <<>>
    /\ pc' = "validate"
    /\ UNCHANGED <<dirty_at_start, head, deleted_on_disk, other_dirty,
                   validate_params, deleted_files, cursor, gate, stash_needed, stash_entries,
                   pushed, calls, log>>

\* OpenAITools() twice, then the call validate_commit_messages(repo,
\* openai_tools): it binds when the callee takes the arguments passed and
\* raises TypeError otherwise.
CallValidate ==
    /\ pc = "validate"
    /\ IF validate_params = ValidateArgsPassed
       THEN /\ pc' = "iter_commits"
            /\ cursor' = 1
            /\ log' = log
       ELSE /\ Propagate("validate_commit_messages")
            /\ cursor' = cursor
    /\ UNCHANGED <<dirty_at_start, head, deleted_on_disk, other_dirty,
                   validate_params, deleted_files, gate, stash_needed, stash_entries, pushed,
                   calls>>

\* Variant: the result of the validation is ignored.
AfterGateAlwaysFetch(result) == "fetch"

\* Where git_push goes with the value validate_commit_messages returned.
AfterGate(result) == IF result = "true" THEN "fetch" ELSE "done"

\* One turn of the loop of validate_commit_messages; when it returns,
\* "if not validate_commit_messages(...)" of git_push logs and returns.
IterCommits ==
    /\ pc = "iter_commits"
    /\ \E r \in {validate_commit_messages_step(head, cursor)} :
           IF r = "continue"
           THEN /\ cursor' = cursor + 1
                /\ UNCHANGED <<pc, gate, log>>
           ELSE /\ gate' = r
                /\ pc' = AfterGate(r)
                /\ log' = IF AfterGate(r) = "done"
                          THEN Append(log, ErrorEntry(MsgValidationFailed, ""))
                          ELSE log
                /\ cursor' = cursor
    /\ UNCHANGED <<dirty_at_start, head, deleted_on_disk, other_dirty,
                   validate_params, deleted_files, stash_needed,
                   stash_entries, pushed, calls>>

\* repo.remotes.origin.fetch()
Fetch ==
    /\ pc = "fetch"
    /\ \E ok \in BOOLEAN :
          /\ calls' = Append(calls, Call("fetch", ok))
          /\ IF ok THEN pc' = "active_branch" /\ log' = log
                   ELSE Propagate("fetch")
    /\ UNCHANGED <<dirty_at_start, head, deleted_on_disk, other_dirty,
                   validate_params, deleted_files, cursor, gate, stash_needed, stash_entries,
                   pushed>>

\* current_branch = repo.active_branch.name
ActiveBranch ==
    /\ pc = "active_branch"
    /\ \E ok \in BOOLEAN :
          /\ calls' = Append(calls, Call("active_branch", ok))
          /\ IF ok THEN pc' = "stash" /\ log' = log
                   ELSE Propagate("active_branch")
    /\ UNCHANGED <<dirty_at_start, head, deleted_on_disk, other_dirty,
                   validate_params, deleted_files, cursor, gate, stash_needed, stash_entries,
                   pushed>>

\* stash_needed = repo.is_dirty(untracked_files=True)
\* if stash_needed: repo.git.stash("save", "--include-untracked", ...)
StashIfDirty ==
    /\ pc = "stash"
    /\ stash_needed' = is_dirty
    /\ IF is_dirty
       THEN \E ok \in BOOLEAN :
               /\ calls' = Append(calls, Call("stash_save", ok))
               /\ IF ok
                  THEN /\ stash_entries' = stash_entries + 1
                       /\ other_dirty' = FALSE
                       /\ deleted_on_disk' = <<>>
                       /\ pc' = "rebase"
                       /\ log' = log
                  ELSE /\ Propagate("stash_save")
                       /\ UNCHANGED <<stash_entries, other_dirty, deleted_on_disk>>
       ELSE /\ pc' = "rebase"
            /\ UNCHANGED <<stash_entries, other_dirty, deleted_on_disk, calls, log>>
    /\ UNCHANGED <<dirty_at_start, head, validate_params, deleted_files, cursor,
                   gate, pushed>>

\* repo.git.rebase(f"origin/{current_branch}")
Rebase ==
    /\ pc = "rebase"
    /\ \E ok \in BOOLEAN :
          /\ calls' = Append(calls, Call("rebase", ok))
          /\ IF ok THEN pc' = "push" /\ log' = log
                   ELSE Propagate("rebase")
    /\ UNCHANGED <<dirty_at_start, head, deleted_on_disk, other_dirty,
                   validate_params, deleted_files, cursor, gate, stash_needed, stash_entries,
                   pushed>>

\* repo.remotes.origin.push()
Push ==
    /\ pc = "push"
    /\ \E ok \in BOOLEAN :
          /\ calls' = Append(calls, Call("push", ok))
          /\ pushed' = ok
          /\ IF ok THEN pc' = "unstash" /\ log' = log
                   ELSE Propagate("push")
    /\ UNCHANGED <<dirty_at_start, head, deleted_on_disk, other_dirty,
                   validate_params, deleted_files, cursor, gate, stash_needed, stash_entries>>

\* Variant: the stash is never restored.
UnstashNever ==
    /\ pc = "unstash"
    /\ pc' = "success"
    /\ UNCHANGED <<dirty_at_start, head, deleted_on_disk, other_dirty,
                   validate_params, deleted_files, cursor, gate, stash_needed,
                   stash_entries, pushed, calls, log>>

\* if stash_needed: try: repo.git.stash("pop") except GitCommandError: log
UnstashIfNeeded ==
    /\ pc = "unstash"
    /\ IF stash_needed
       THEN \E ok \in BOOLEAN :
               /\ calls' = Append(calls, Call("stash_pop", ok))
               /\ IF ok
                  THEN /\ stash_entries' = stash_entries - 1
                       /\ other_dirty' = TRUE
                       /\ pc' = "success"
                       /\ log' = log
                  ELSE IF PopHandled(ExcOf("stash_pop"))
                  THEN /\ log' = Append(log, ErrorEntry(MsgPopFailed, "stash_pop"))
                       /\ pc' = "success"
                       /\ UNCHANGED <<stash_entries, other_dirty>>
                  ELSE /\ Propagate("stash_pop")
                       /\ UNCHANGED <<stash_entries, other_dirty>>
       ELSE /\ pc' = "success"
            /\ UNCHANGED <<stash_entries, other_dirty, calls, log>>
    /\ UNCHANGED <<dirty_at_start, head, deleted_on_disk, validate_params,
                   deleted_files,
                   cursor, gate, stash_needed, pushed>>

\* logger.info(message="Pushed changes to remote repository"), then the
\* function returns.
LogSuccess ==
    /\ pc = "success"
    /\ log' = Append(log, InfoEntry(MsgPushed))
    /\ pc' = "done"
    /\ UNCHANGED <<dirty_at_start, head, deleted_on_disk, other_dirty,
                   validate_params, deleted_files, cursor, gate, stash_needed, stash_entries,
                   pushed, calls>>

Next ==
    \/ ListDeleted
    \/ HandleDeletion
    \/ EndDeletions
    \/ CallValidate
    \/ IterCommits
    \/ Fetch
    \/ ActiveBranch
    \/ StashIfDirty
    \/ Rebase
    \/ Push
    \/ UnstashIfNeeded
    \/ LogSuccess

Spec == Init /\ [][Next]_vars

(***************************************************************************)
(* Properties.                                                             *)
(***************************************************************************)
Finished == pc = "done"

\* The operations of the calls made so far, restricted to ops, in order.
OpsAmong(ops) ==
    LET sel == SelectSeq(calls, LAMBDA c : c.op \in ops)
    IN  [i \in 1..Len(sel) |-> sel[i].op]

Called(op) == \E i \in 1..Len(calls) : calls[i].op = op

Succeeded(op) == \E i \in 1..Len(calls) : calls[i].op = op /\ calls[i].ok

Failed(op) == \E i \in 1..Len(calls) : calls[i].op = op /\ ~calls[i].ok

Logged(message) == \E i \in 1..Len(log) : log[i].message = message

LoggedError(message, reason) ==
    \E i \in 1..Len(log) : log[i] = ErrorEntry(message, reason)

EndsWithSuccess == log # <<>> /\ log[Len(log)] = InfoEntry(MsgPushed)

AllValid(h) == \A i \in 1..Len(h) : validate_single_commit_message(h[i])

GuardedOps == {"fetch", "stash_save", "rebase", "push", "stash_pop"}

\* C1: after a validation that returned false no fetch, stash-save, rebase,
\* push or stash-pop call is made; a call of one of these is only ever made
\* in a run whose validation returned true with every commit of HEAD valid.
C1_GateBeforeSideEffects ==
    /\ gate = "false" => OpsAmong(GuardedOps) = <<>>
    /\ ~AllValid(head) /\ pc \notin {"start", "deletions"}
          => OpsAmong(GuardedOps) = <<>>
    /\ OpsAmong(GuardedOps) # <<>> => gate = "true" /\ AllValid(head)

C1_Witness ==
    /\ Finished
    /\ gate = "false"
    /\ Len(head) >= 2
    /\ validate_single_commit_message(head[1])
    /\ OpsAmong(GuardedOps) = <<>>

\* C2: a finished run on a history of at least one commit in which every
\* commit of HEAD validates and every
\* call on the version-control collaborator succeeded has passed the
\* validation, has called fetch, rebase and push once each in that order,
\* and ends with the success entry.
C2_HappyPathPushes ==
    (/\ Finished
     /\ head # <<>>
     /\ AllValid(head)
     /\ \A i \in 1..Len(calls) : calls[i].ok)
    => /\ gate = "true"
       /\ OpsAmong({"fetch", "rebase", "push"}) = <<"fetch", "rebase", "push">>
       /\ EndsWithSuccess

\* C3: a finished run that started with a dirty tree and whose push
\* succeeded made exactly one stash-save and one stash-pop, in the order
\* stash-save, rebase, push, stash-pop.
C3_StashBracketsRebase ==
    (Finished /\ dirty_at_start /\ pushed)
    => OpsAmong({"stash_save", "rebase", "push", "stash_pop"})
          = <<"stash_save", "rebase", "push", "stash_pop">>

C3_Witness ==
    /\ Finished
    /\ dirty_at_start
    /\ pushed
    /\ Succeeded("stash_pop")

\* The run got as far as the call of validate_commit_messages.
ReachedValidate ==
    \/ cursor > 0
    \/ \E i \in 1..Len(log) : log[i].reason = "validate_commit_messages"

\* C4: a failure of staging or committing one deleted file is logged and
\* the loop goes on; the run reaches the validation whatever failed (stated
\* for finished runs on a history of at least one commit).
C4_DeletionFailureTolerated ==
    (Finished /\ head # <<>> /\ (Failed("add") \/ Failed("commit")))
    => Logged(MsgDeletionFailed) /\ ReachedValidate

C6_PopFailureNotEscalated ==
    (Finished /\ Failed("stash_pop"))
    => /\ pushed
       /\ LoggedError(MsgPopFailed, "stash_pop")
       /\ EndsWithSuccess
       /\ ~Logged(MsgPushFailed)
       /\ ~Logged(MsgUnexpected)
       /\ calls[Len(calls)].op = "stash_pop"
       /\ OpsAmong({"stash_pop"}) = <<"stash_pop">>
       /\ stash_entries = 1

C6_Witness ==
    /\ Finished
    /\ Succeeded("stash_save")
    /\ pushed
    /\ Failed("stash_pop")

\* C7: the value validate_commit_messages returns is the conjunction of
\* validate_single_commit_message over the commits of HEAD: true exactly
\* when every message validates (true for no commits), false when one
\* message at any position fails.
C7_AndReduction ==
    gate # "none" => (gate = "true" <=> AllValid(head))

C7_Witness ==
    /\ gate = "false"
    /\ Len(head) >= 2
    /\ \A i \in 1..(Len(head) - 1) : validate_single_commit_message(head[i])
    /\ ~validate_single_commit_message(head[Len(head)])

\* C8: a failed fetch, stash-save, rebase or push is the last call of the
\* run: the run is over, an error entry carries the reason, and the success
\* entry is not written.
C8_HaltsAtFailedStep ==
    \A i \in 1..Len(calls) :
       (calls[i].op \in {"fetch", "stash_save", "rebase", "push"} /\ ~calls[i].ok)
       => /\ i = Len(calls)
          /\ Finished
          /\ LoggedError(MsgPushFailed, calls[i].op)
          /\ ~Logged(MsgPushed)

C8_Witness ==
    /\ Finished
    /\ Failed("push")
    /\ Succeeded("stash_save")
    /\ ~Called("stash_pop")

DeletionMessages == {DeletionMessage(f) : f \in Files}

NoRemoteContact == OpsAmong({"fetch", "rebase", "push"}) = <<>>

\* C10 as stated: no deletion commit message contains "Signed-off-by:",
\* each fails the validation, and a run that created a deletion commit
\* makes no fetch, rebase or push call.
C10_DeletionCommitsUnsigned ==
    /\ \A i \in 1..Len(head) :
          head[i] \in DeletionMessages
             => /\ ~is_commit_message_signed_off(head[i])
                /\ ~validate_single_commit_message(head[i])
    /\ Succeeded("commit") => ~AllValid(head) /\ NoRemoteContact

\* C10 as amended: every deletion commit message fails
\* is_conventional_commit (its one line matches no sign-off line) and so
\* fails the validation, and a run that created a deletion commit makes no
\* fetch, rebase or push call.
C10_DeletionCommitsBlockPush ==
    /\ \A i \in 1..Len(head) :
          head[i] \in DeletionMessages
             => /\ ~is_conventional_commit(head[i])
                /\ ~validate_single_commit_message(head[i])
    /\ Succeeded("commit")
          => /\ \E i \in 1..Len(head) : head[i] \in DeletionMessages
             /\ ~AllValid(head)
             /\ NoRemoteContact

C10_Witness ==
    /\ Finished
    /\ Succeeded("commit")
    /\ gate = "false"
    /\ \A i \in 2..Len(head) : validate_single_commit_message(head[i])
    /\ Len(head) >= 2

====
